---- MODULE Spec2Model ----
(***************************************************************************)
(* Verification model of the feature pipeline:                             *)
(*   - src/src/polars_examples.py, lines 375-647: the global aggregation   *)
(*     run (vocabulary, hourly grid, atomic join, per-cell features);       *)
(*   - src/src/xgboost.py: the streaming batch generator.                  *)
(*                                                                         *)
(* Conventions.  A nullable value is a sequence of length at most one:     *)
(* NULL is <<>>, a present value v is <<v>>.  Weights are integers in a    *)
(* fixed unit, so that products and sums are exact.  Time is counted in    *)
(* ticks; one hour is HourLen ticks.                                       *)
(***************************************************************************)
EXTENDS Integers, Sequences, FiniteSets, TLC

VARIABLES
    \* ---- aggregation run (polars_examples.py) ----
    lf,                 \* the scanned raw rows
    pc,                 \* position of the aggregation script
    measurement_types,  \* list of the global vocabulary
    global_hours,       \* list of the hours of the global grid
    atomic_df,          \* the materialised atomic table
    groups,             \* cells still to be handed to build_features_for_cell
    cell_features,      \* tables returned by build_features_for_cell so far
    features_all_cells, \* the concatenated global table
    run_no,             \* number of the current run over the same scan
    prev_features,      \* features_all_cells of the previous run
    cell_groups,        \* the per-cell tables written in step 6, by cell id
    \* ---- window aggregation of one raw column ----
    series,             \* a raw per-type column of an aligned table
    rpc,                \* "raw", "rolled" or "compared"
    rolled,             \* the rolling features of series
    cut,                \* number of leading rows the second table shares
    alt_series,         \* the raw column of a second aligned table
    alt_rolled,         \* the rolling features of alt_series
    \* ---- streaming batches (xgboost.py) ----
    store,              \* feature store: cell -> stored feature table
    unlabelled,         \* the stored rows <<cell, hour>> whose label is null
    cell_ids,           \* the cell list handed to batch_generator
    slice,              \* <<start, end>> handed to batch_generator
    gen,                \* the generator object: its state and loop position
    batches,            \* the batches delivered in the current pass
    batch_cells,        \* the cells those batches came from
    last,               \* how the last next() ended
    pass_no,            \* number of generators created so far
    first_pass,         \* the batches of the first completed pass
    passes_done,        \* number of passes that ran to their end
    late_calls,         \* next() calls made on the generator after its end
    \* ---- worker pool (pool.py) ----
    cell_paths,         \* the list handed to pool.map
    call_queue,         \* the tasks no worker has taken yet
    worker,             \* per worker process: its position
    TRUTH,              \* per worker process: its module global TRUTH
    current,            \* per worker process: the task it is running
    results,            \* the tasks whose result has come back
    observed,           \* per worker: the values of TRUTH its tasks have seen
    truth_writes,       \* per worker: number of assignments to TRUTH
    \* ---- record partitioner (partitioner.py) ----
    records,            \* the input vector of flat records
    next_rec,           \* position of the loop over records
    partitions          \* the map from key to bucket

aggVars == <<lf, pc, measurement_types, global_hours, atomic_df, groups,
             cell_features, features_all_cells, run_no, prev_features,
             cell_groups>>

rollVars == <<series, rpc, rolled, cut, alt_series, alt_rolled>>

iterVars == <<store, unlabelled, cell_ids, slice, gen, batches, batch_cells, last, pass_no,
              first_pass, passes_done, late_calls>>

poolVars == <<cell_paths, call_queue, worker, TRUTH, current, results, observed,
              truth_writes>>

partVars == <<records, next_rec, partitions>>

vars == <<aggVars, rollVars, iterVars, poolVars, partVars>>

----------------------------------------------------------------------------
(* Nullable values *)

NULL == <<>>

Some(v) == <<v>>

is_not_null(x) == x # NULL

Get(x) == x[1]

fill_null(x, v) == IF x = NULL THEN Some(v) ELSE x

----------------------------------------------------------------------------
(* Bounds and input domains *)

MaxRows == 2

HourLen == 2

ObsIds == {1, 2}

Cells == {"cA", "cB"}

Timestamps == {1, 2, 3}

\* what a raw row carries: <<location_weight, measurement_type,
\* measurement_weight>>; a location candidate, a measurement candidate, or both
Candidates ==
    { <<Some(1), NULL, NULL>>,
      <<NULL, Some("temp"), Some(1)>>,
      <<Some(1), Some("temp"), Some(1)>>,
      <<Some(2), Some("hum"), Some(2)>> }

RawRows ==
    { [obs_id |-> o, h3_res3 |-> c, timestamp |-> t, location_weight |-> k[1],
       measurement_type |-> k[2], measurement_weight |-> k[3]] :
        o \in ObsIds, c \in Cells, t \in Timestamps, k \in Candidates }

RECURSIVE SubsetsUpTo(_, _)
SubsetsUpTo(D, k) ==
    IF k = 0 THEN {{}}
    ELSE LET prev == SubsetsUpTo(D, k - 1)
         IN  prev \cup { s \cup {r} : s \in prev, r \in D }

\* The scan is a set of rows: every read of lf (unique, min, max) is blind to
\* repeated raw rows and to their order.
Scans == SubsetsUpTo(RawRows, MaxRows) \ {{}}

----------------------------------------------------------------------------
(* Generic helpers *)

Perms(S) ==
    { f \in [1..Cardinality(S) -> S] : \A i, j \in DOMAIN f : i # j => f[i] # f[j] }

Range(s) == { s[i] : i \in DOMAIN s }

RECURSIVE SumSeq(_)
SumSeq(s) == IF s = <<>> THEN 0 ELSE Head(s) + SumSeq(Tail(s))

Min(S) == CHOOSE x \in S : \A y \in S : x <= y

Max(S) == CHOOSE x \in S : \A y \in S : x >= y

\* the increasing enumeration of a finite set of integers
RECURSIVE Sorted(_)
Sorted(S) == IF S = {} THEN <<>> ELSE <<Min(S)>> \o Sorted(S \ {Min(S)})

----------------------------------------------------------------------------
(* Configuration *)

\* WINDOWS: label -> span in rows; a label is identified with its span
WINDOWS == <<1, 6, 12, 24>>

----------------------------------------------------------------------------
(* STEP 0: global measurement vocabulary *)

\* filter(measurement_type not null).select(measurement_type).unique()
global_vocab(scan) ==
    { Get(r.measurement_type) : r \in { x \in scan : is_not_null(x.measurement_type) } }

\* unique() keeps no order: to_list() may return any arrangement
VocabLists(scan) == Perms(global_vocab(scan))

----------------------------------------------------------------------------
(* STEP 1: global timestamp range and hourly grid *)

truncate(t) == t \div HourLen

min_ts(scan) == Min({ r.timestamp : r \in scan })

max_ts(scan) == Max({ r.timestamp : r \in scan })

\* min_ts.replace(minute=0, ...), in hours
floor_hour(t) == t \div HourLen

\* if max_ts is not on the hour: (max_ts + 1h).replace(minute=0, ...); in hours
ceil_hour(t) == IF t % HourLen # 0 THEN (t + HourLen) \div HourLen ELSE t \div HourLen

\* date_range(start, end, "1h", closed="left")
date_range(start, end) == Sorted({ h \in start..(end - 1) : TRUE })

GlobalHours(scan) == date_range(floor_hour(min_ts(scan)), ceil_hour(max_ts(scan)))

----------------------------------------------------------------------------
(* STEP 2: atomic table *)

\* A frame whose rows may repeat is a bag: a function from the distinct rows
\* to the number of copies.  BagOf(f) is the frame with one row f[x] per
\* element x of the domain of f.
BagOf(f) ==
    [ row \in { f[x] : x \in DOMAIN f } |->
        Cardinality({ x \in DOMAIN f : f[x] = row }) ]

height(df) == LET RECURSIVE H(_)
                  H(D) == IF D = {} THEN 0
                          ELSE LET r == CHOOSE x \in D : TRUE
                               IN  df[r] + H(D \ {r})
              IN  H(DOMAIN df)

\* unique(): one copy of every distinct row
unique(df) == [ row \in DOMAIN df |-> 1 ]

\* The location side's select.  The lat/lon columns only keep apart location
\* candidates that differ in nothing else; here candidates are kept apart by
\* obs_id, cell, weight and timestamp.
LocRow(r) ==
    [obs_id |-> r.obs_id, h3_res3 |-> r.h3_res3,
     location_weight |-> Get(r.location_weight), timestamp_str |-> r.timestamp]

lf_loc(scan) ==
    unique(BagOf([ r \in { x \in scan : is_not_null(x.location_weight) } |->
                     LocRow(r) ]))

MeasRow(r) ==
    [obs_id |-> r.obs_id, measurement_type |-> Get(r.measurement_type),
     measurement_weight |-> Get(r.measurement_weight)]

lf_meas(scan) ==
    unique(BagOf([ r \in { x \in scan : is_not_null(x.measurement_weight) } |->
                     MeasRow(r) ]))

\* lf_loc.join(lf_meas, on="obs_id", how="inner"): the matching pairs of rows
joined(scan) ==
    { p \in (DOMAIN lf_loc(scan)) \X (DOMAIN lf_meas(scan)) :
        p[1].obs_id = p[2].obs_id }

signal_weight(l, m) == l.location_weight * m.measurement_weight

\* with_columns(timestamp, signal_weight).select(h3_res3, timestamp, type, weight)
AtomicRow(p) ==
    [h3_res3 |-> p[1].h3_res3, timestamp |-> truncate(p[1].timestamp_str),
     measurement_type |-> p[2].measurement_type,
     signal_weight |-> signal_weight(p[1], p[2])]

\* one selected row per joined pair, then .unique()
lf_atomic(scan) == unique(BagOf([ p \in joined(scan) |-> AtomicRow(p) ]))

----------------------------------------------------------------------------
(* STEP 3: per-cell feature builder *)

\* A column is <<name, kind, span>>.
KeyCol(name) == <<name, "key", 0>>

RawCol(mt) == <<mt, "raw", 0>>

SumCol(mt, span) == <<mt, "sum", span>>

CountCol(mt, span) == <<mt, "count", span>>

\* mutant of rolling_sum: the window is centred on the row (center=True)
rolling_sum_centered(xs, window_size) ==
    LET min_periods == window_size
    IN  [ i \in 1..Len(xs) |->
            LET lo == IF i - (window_size \div 2) < 1 THEN 1
                      ELSE i - (window_size \div 2)
                hi == IF i + ((window_size - 1) \div 2) > Len(xs) THEN Len(xs)
                      ELSE i + ((window_size - 1) \div 2)
            IN  IF hi - lo + 1 >= min_periods
                THEN Some(SumSeq(SubSeq(xs, lo, hi)))
                ELSE NULL ]

\* rolling_sum(window_size): min_periods defaults to window_size, so a row
\* with fewer than window_size rows up to it is null
rolling_sum(xs, window_size) ==
    LET min_periods == window_size
    IN  [ i \in 1..Len(xs) |->
            LET lo == IF i - window_size + 1 < 1 THEN 1 ELSE i - window_size + 1
            IN  IF i - lo + 1 >= min_periods
                THEN Some(SumSeq(SubSeq(xs, lo, i)))
                ELSE NULL ]

\* (pl.col(mt) > 0).cast(pl.Int32)
presence(xs) == [ i \in 1..Len(xs) |-> IF xs[i] > 0 THEN 1 ELSE 0 ]

\* df.pivot(index=timestamp, columns=measurement_type, values=signal_weight,
\*          aggregate_function="sum"): the cell value for (t, mt)
pivot_value(df, t, mt) ==
    LET hit == { r \in DOMAIN df : r.timestamp = t /\ r.measurement_type = mt }
        RECURSIVE S(_)
        S(D) == IF D = {} THEN 0
                ELSE LET r == CHOOSE x \in D : TRUE
                     IN  r.signal_weight * df[r] + S(D \ {r})
    IN  IF hit = {} THEN NULL ELSE Some(S(hit))

pivot_columns(df) == { r.measurement_type : r \in DOMAIN df }

pivot_index(df) == { r.timestamp : r \in DOMAIN df }

\* global_hours.join(pivoted, on="timestamp", how="left").fill_null(0.0):
\* the raw value of column mt at grid hour h
aligned_value(df, h, mt) ==
    IF h \in pivot_index(df) THEN Get(fill_null(pivot_value(df, h, mt), 0)) ELSE 0

\* the columns after "ensure full measurement vocabulary exists": the pivot's
\* columns in their order, then each missing type of the vocabulary
completed_columns(pivot_order, mts) ==
    pivot_order \o SelectSeq(mts, LAMBDA mt : mt \notin Range(pivot_order))

\* the raw column mt over the grid (0.0 for a column added by the completion)
raw_column(df, hours, mt) ==
    [ i \in 1..Len(hours) |->
        IF mt \in pivot_columns(df) THEN aligned_value(df, hours[i], mt) ELSE 0 ]

\* the columns one pass of the loop over WINDOWS adds, in order
window_columns(mts, span) ==
    [ i \in 1..Len(mts) |-> SumCol(mts[i], span) ] \o
    [ i \in 1..Len(mts) |-> CountCol(mts[i], span) ]

RECURSIVE rolling_columns(_, _)
rolling_columns(mts, windows) ==
    IF windows = <<>> THEN <<>>
    ELSE window_columns(mts, Head(windows)) \o rolling_columns(mts, Tail(windows))

\* mutant of drop: the raw columns are kept
drop_nothing(columns, mts) == columns

\* rolling.drop(measurement_types)
drop(columns, mts) ==
    SelectSeq(columns, LAMBDA c : ~(c[2] = "raw" /\ c[1] \in Range(mts)))

\* the value of column c at row i of the cell's table
cell_value(df, hours, c, i) ==
    CASE c[2] = "raw"   -> Some(raw_column(df, hours, c[1])[i])
      [] c[2] = "sum"   -> rolling_sum(raw_column(df, hours, c[1]), c[3])[i]
      [] c[2] = "count" -> rolling_sum(presence(raw_column(df, hours, c[1])), c[3])[i]

build_features_for_cell(df, pivot_order, mts, hours) ==
    LET cell_id  == (CHOOSE r \in DOMAIN df : TRUE).h3_res3
        rolling  == completed_columns([ i \in DOMAIN pivot_order |->
                                          RawCol(pivot_order[i]) ],
                                      [ i \in DOMAIN mts |-> RawCol(mts[i]) ])
                    \o rolling_columns(mts, WINDOWS)
        features == drop(rolling, mts)
    IN  [ columns |-> <<KeyCol("timestamp"), KeyCol("h3_res3")>> \o features,
          rows    |-> [ i \in 1..Len(hours) |->
                          [ timestamp |-> hours[i], h3_res3 |-> cell_id,
                            vals |-> [ c \in Range(features) |->
                                         cell_value(df, hours, c, i) ] ] ] ]

----------------------------------------------------------------------------
(* STEP 4: group_by("h3_res3").map_groups(build_features_for_cell) *)

MaxRuns == 1

EmptyFrame == [columns |-> <<>>, rows |-> <<>>]

group_keys(df) == { r.h3_res3 : r \in DOMAIN df }

group_df(df, cell) ==
    [ r \in { x \in DOMAIN df : x.h3_res3 = cell } |-> df[r] ]

RECURSIVE vstack(_)
vstack(tables) ==
    IF tables = <<>> THEN <<>> ELSE Head(tables).rows \o vstack(Tail(tables))

\* the frames of the groups are concatenated; frames of different schemas
\* cannot be
same_schema(tables) ==
    \A i, j \in DOMAIN tables : tables[i].columns = tables[j].columns

concat(tables) ==
    IF tables = <<>> THEN EmptyFrame
    ELSE [columns |-> tables[1].columns, rows |-> vstack(tables)]

----------------------------------------------------------------------------
(* The aggregation run as a state machine *)

AggInit ==
    /\ lf \in Scans
    /\ pc = "vocab"
    /\ measurement_types = <<>>
    /\ global_hours = <<>>
    /\ atomic_df = <<>>
    /\ groups = <<>>
    /\ cell_features = <<>>
    /\ features_all_cells = EmptyFrame
    /\ run_no = 1
    /\ prev_features = NULL
    /\ cell_groups = <<>>

\* A scan is whatever the parquet files hold: nothing between the files and
\* the script constrains the sign of a weight column.
UncheckedCandidates == Candidates \cup { <<Some(-1), Some("temp"), Some(1)>> }

UncheckedRows ==
    { [obs_id |-> o, h3_res3 |-> c, timestamp |-> t, location_weight |-> k[1],
       measurement_type |-> k[2], measurement_weight |-> k[3]] :
        o \in ObsIds, c \in Cells, t \in Timestamps, k \in UncheckedCandidates }

UncheckedScans == SubsetsUpTo(UncheckedRows, MaxRows) \ {{}}

AggInitUnchecked ==
    /\ lf \in UncheckedScans
    /\ pc = "vocab"
    /\ measurement_types = <<>>
    /\ global_hours = <<>>
    /\ atomic_df = <<>>
    /\ groups = <<>>
    /\ cell_features = <<>>
    /\ features_all_cells = EmptyFrame
    /\ run_no = 1
    /\ prev_features = NULL
    /\ cell_groups = <<>>

Step0Vocabulary ==
    /\ pc = "vocab"
    /\ measurement_types' \in VocabLists(lf)
    /\ pc' = "grid"
    /\ UNCHANGED <<lf, global_hours, atomic_df, groups, cell_features,
                   features_all_cells, run_no, prev_features, cell_groups, rollVars,
                   iterVars, poolVars, partVars>>

Step1GlobalHours ==
    /\ pc = "grid"
    /\ global_hours' = GlobalHours(lf)
    /\ pc' = "atomic"
    /\ UNCHANGED <<lf, measurement_types, atomic_df, groups, cell_features,
                   features_all_cells, run_no, prev_features, cell_groups, rollVars,
                   iterVars, poolVars, partVars>>

Step2Atomic ==
    /\ pc = "atomic"
    /\ atomic_df' = lf_atomic(lf)
    /\ pc' = "group"
    /\ UNCHANGED <<lf, measurement_types, global_hours, groups, cell_features,
                   features_all_cells, run_no, prev_features, cell_groups, rollVars,
                   iterVars, poolVars, partVars>>

\* group_by(maintain_order=False): the groups come in any order
Step4GroupBy ==
    /\ pc = "group"
    /\ groups' \in Perms(group_keys(atomic_df))
    /\ pc' = "cells"
    /\ UNCHANGED <<lf, measurement_types, global_hours, atomic_df, cell_features,
                   features_all_cells, run_no, prev_features, cell_groups, rollVars,
                   iterVars, poolVars, partVars>>

\* one call of build_features_for_cell; the pivot's columns come in the order
\* the types first appear in the group's rows, which unique() leaves open
Step4MapGroup ==
    /\ pc = "cells"
    /\ groups # <<>>
    /\ LET df == group_df(atomic_df, Head(groups))
       IN  \E pivot_order \in Perms(pivot_columns(df)) :
             cell_features' =
                 Append(cell_features,
                        build_features_for_cell(df, pivot_order,
                                                measurement_types, global_hours))
    /\ groups' = Tail(groups)
    /\ UNCHANGED <<lf, pc, measurement_types, global_hours, atomic_df,
                   features_all_cells, run_no, prev_features, cell_groups, rollVars,
                   iterVars, poolVars, partVars>>

Step4Concat ==
    /\ pc = "cells"
    /\ groups = <<>>
    /\ IF same_schema(cell_features)
       THEN /\ features_all_cells' = concat(cell_features)
            /\ pc' = "done"
       ELSE /\ features_all_cells' = features_all_cells
            /\ pc' = "error"
    /\ UNCHANGED <<lf, measurement_types, global_hours, atomic_df, groups,
                   cell_features, run_no, prev_features, cell_groups, rollVars,
                   iterVars, poolVars, partVars>>

\* mutant of partition_by: every group is handed the whole table
partition_by_unfiltered(df, by) ==
    [ k \in { df.rows[i][by] : i \in DOMAIN df.rows } |-> df ]

\* df.partition_by(by, as_dict=True): one table per value of the column, its
\* rows in the order they have in df, all columns kept
partition_by(df, by) ==
    [ k \in { df.rows[i][by] : i \in DOMAIN df.rows } |->
        [columns |-> df.columns,
         rows |-> SelectSeq(df.rows, LAMBDA r : r[by] = k)] ]

\* step 6: the global table is split by cell and every part is written under
\* the path of its cell (step 5, the write of the global table, changes no
\* state of the script)
Step6PartitionBy ==
    /\ pc = "done"
    /\ cell_groups' = partition_by(features_all_cells, "h3_res3")
    /\ pc' = "written"
    /\ UNCHANGED <<lf, measurement_types, global_hours, atomic_df, groups,
                   cell_features, features_all_cells, run_no, prev_features,
                   rollVars, iterVars, poolVars, partVars>>

\* the script is run again over the same scan
RunAgain ==
    /\ pc = "done"
    /\ run_no < MaxRuns + 1
    /\ prev_features' = Some(features_all_cells)
    /\ run_no' = run_no + 1
    /\ pc' = "vocab"
    /\ measurement_types' = <<>>
    /\ global_hours' = <<>>
    /\ atomic_df' = <<>>
    /\ groups' = <<>>
    /\ cell_features' = <<>>
    /\ features_all_cells' = EmptyFrame
    /\ cell_groups' = <<>>
    /\ UNCHANGED <<lf, rollVars, iterVars, poolVars, partVars>>

AggNext ==
    \/ Step0Vocabulary
    \/ Step1GlobalHours
    \/ Step2Atomic
    \/ Step4GroupBy
    \/ Step4MapGroup
    \/ Step4Concat
    \/ Step6PartitionBy

AggIdle ==
    /\ lf = {}
    /\ pc = "idle"
    /\ measurement_types = <<>>
    /\ global_hours = <<>>
    /\ atomic_df = <<>>
    /\ groups = <<>>
    /\ cell_features = <<>>
    /\ features_all_cells = EmptyFrame
    /\ run_no = 0
    /\ prev_features = NULL
    /\ cell_groups = <<>>

----------------------------------------------------------------------------
(* The window aggregation of one raw column, and of a second table that    *)
(* shares its leading rows                                                 *)

MaxLen == 7

RawValues == {0, 2}

RECURSIVE SeqsOfLen(_, _)
SeqsOfLen(V, n) ==
    IF n = 0 THEN {<<>>}
    ELSE { Append(t, v) : t \in SeqsOfLen(V, n - 1), v \in V }

\* the sum and count features of one raw column, for every span of WINDOWS
rolling_features(xs) ==
    [ w \in Range(WINDOWS) |->
        [ sum |-> rolling_sum(xs, w), count |-> rolling_sum(presence(xs), w) ] ]

RollInit ==
    /\ series \in UNION { SeqsOfLen(RawValues, n) : n \in 1..MaxLen }
    /\ rpc = "raw"
    /\ rolled = <<>>
    /\ cut = 0
    /\ alt_series = <<>>
    /\ alt_rolled = <<>>

RollingFeatures ==
    /\ rpc = "raw"
    /\ rolled' = rolling_features(series)
    /\ rpc' = "rolled"
    /\ UNCHANGED <<series, cut, alt_series, alt_rolled, aggVars, iterVars, poolVars, partVars>>

\* a second table of the cell with the same first k rows and other later rows
RollingFeaturesOfVariant ==
    /\ rpc = "rolled"
    /\ \E k \in 1..(Len(series) - 1) :
         \E later \in SeqsOfLen(RawValues, Len(series) - k) :
            /\ cut' = k
            /\ alt_series' = SubSeq(series, 1, k) \o later
            /\ alt_rolled' = rolling_features(SubSeq(series, 1, k) \o later)
    /\ rpc' = "compared"
    /\ UNCHANGED <<series, rolled, aggVars, iterVars, poolVars, partVars>>

RollNext == RollingFeatures \/ RollingFeaturesOfVariant

RollIdle ==
    /\ series = <<>>
    /\ rpc = "idle"
    /\ rolled = <<>>
    /\ cut = 0
    /\ alt_series = <<>>
    /\ alt_rolled = <<>>

----------------------------------------------------------------------------
(* The streaming batch generator (xgboost.py) *)

MaxHour == 2

MaxCellIds == 2

MaxPasses == 2

\* a stored feature table: rows in ascending timestamp order
StoredRow(c, h) ==
    [timestamp |-> h,
     label |-> IF <<c, h>> \in unlabelled THEN NULL
               ELSE Some(IF c = "cA" THEN 1 ELSE 0),
     features |-> <<c, h>>]

StoredTable(c, hs) == [ i \in 1..Cardinality(hs) |-> StoredRow(c, Sorted(hs)[i]) ]

Stores == [ Cells -> SUBSET (0..(MaxHour - 1)) ]

load_parquet_from_s3(cell_id) == StoredTable(cell_id, store[cell_id])

time_slice(df, start, end) ==
    SelectSeq(df, LAMBDA r : r.timestamp >= start /\ r.timestamp < end)

is_empty(df) == df = <<>>

\* select_training_columns, then y = label column, X = the other columns;
\* to_numpy turns a null label into NaN, the row stays in the batch
to_batch(df) ==
    [X |-> [ i \in DOMAIN df |-> df[i].features ],
     y |-> [ i \in DOMAIN df |-> df[i].label ]]

RECURSIVE batch_generator_resume(_, _)
RECURSIVE on_empty_slice(_, _)

\* mutant of on_empty_slice: "break", the loop ends at the first empty slice
on_empty_slice_break(ids, i) == [yielded |-> FALSE, idx |-> Len(ids) + 1]

\* "continue": the loop goes on with the next cell
on_empty_slice(ids, i) == batch_generator_resume(ids, i + 1)

\* the generator's run from loop position i to its next yield, or to the end
\* of the loop
batch_generator_resume(ids, i) ==
    IF i > Len(ids) THEN [yielded |-> FALSE, idx |-> i]
    ELSE LET df == time_slice(load_parquet_from_s3(ids[i]), slice[1], slice[2])
         IN  IF is_empty(df) THEN on_empty_slice(ids, i)
             ELSE [yielded |-> TRUE, idx |-> i, batch |-> to_batch(df)]

\* mutant of batch_generator: the generator object of the last pass is kept
batch_generator_kept ==
    IF gen.state = "none" THEN [state |-> "fresh", idx |-> 1] ELSE gen

\* batch_generator(cell_ids, start, end): a new generator, not yet started
batch_generator == [state |-> "fresh", idx |-> 1]

\* a store of which some rows have no label
IterInitLabels ==
    /\ store \in Stores
    /\ unlabelled \in SUBSET { <<c, h>> : c \in Cells, h \in 0..(MaxHour - 1) }
    /\ \A r \in unlabelled : r[2] \in store[r[1]]
    /\ cell_ids \in UNION { SeqsOfLen(Cells, n) : n \in 0..MaxCellIds }
    /\ slice \in { w \in (0..MaxHour) \X (0..MaxHour) : w[1] < w[2] }
    /\ gen = [state |-> "none", idx |-> 0]
    /\ batches = <<>>
    /\ batch_cells = <<>>
    /\ last = "none"
    /\ pass_no = 0
    /\ first_pass = NULL
    /\ passes_done = 0
    /\ late_calls = 0

\* a store of which every row has a label
IterInit ==
    /\ store \in Stores
    /\ unlabelled = {}
    /\ cell_ids \in UNION { SeqsOfLen(Cells, n) : n \in 0..MaxCellIds }
    /\ slice \in { w \in (0..MaxHour) \X (0..MaxHour) : w[1] < w[2] }
    /\ gen = [state |-> "none", idx |-> 0]
    /\ batches = <<>>
    /\ batch_cells = <<>>
    /\ last = "none"
    /\ pass_no = 0
    /\ first_pass = NULL
    /\ passes_done = 0
    /\ late_calls = 0

\* build_quantile_dmatrix: a pass starts with a new generator over the list
BuildQuantileDMatrix ==
    /\ pass_no < MaxPasses
    /\ gen' = batch_generator
    /\ batches' = <<>>
    /\ batch_cells' = <<>>
    /\ last' = "none"
    /\ pass_no' = pass_no + 1
    /\ late_calls' = 0
    /\ UNCHANGED <<store, unlabelled, cell_ids, slice, first_pass, passes_done, aggVars,
                   rollVars, poolVars, partVars>>

\* next() on a generator that has not ended
GenNext ==
    /\ gen.state \in {"fresh", "suspended"}
    /\ LET r == batch_generator_resume(cell_ids, gen.idx)
       IN  IF r.yielded
           THEN /\ gen' = [state |-> "suspended", idx |-> r.idx + 1]
                /\ batches' = Append(batches, r.batch)
                /\ batch_cells' = Append(batch_cells, cell_ids[r.idx])
                /\ last' = "batch"
                /\ UNCHANGED <<first_pass, passes_done>>
           ELSE /\ gen' = [state |-> "exhausted", idx |-> r.idx]
                /\ last' = "StopIteration"
                /\ first_pass' = IF first_pass = NULL THEN Some(batches)
                                 ELSE first_pass
                /\ passes_done' = passes_done + 1
                /\ UNCHANGED <<batches, batch_cells>>
    /\ UNCHANGED <<store, unlabelled, cell_ids, slice, pass_no, late_calls, aggVars,
                   rollVars, poolVars, partVars>>

MaxLateCalls == 1

\* next() on a generator whose loop has ended: the function body has
\* returned, there is nothing left to run, and the call ends as the call
\* that ended the pass did; no batch is delivered and no state is kept
GenNextExhausted ==
    /\ gen.state = "exhausted"
    /\ late_calls < MaxLateCalls
    /\ gen' = gen
    /\ last' = "StopIteration"
    /\ late_calls' = late_calls + 1
    /\ UNCHANGED <<store, unlabelled, cell_ids, slice, batches, batch_cells, pass_no,
                   first_pass, passes_done, aggVars, rollVars, poolVars, partVars>>

IterNext == BuildQuantileDMatrix \/ GenNext \/ GenNextExhausted

IterIdle ==
    /\ store = <<>>
    /\ unlabelled = {}
    /\ cell_ids = <<>>
    /\ slice = <<0, 0>>
    /\ gen = [state |-> "none", idx |-> 0]
    /\ batches = <<>>
    /\ batch_cells = <<>>
    /\ last = "none"
    /\ pass_no = 0
    /\ first_pass = NULL
    /\ passes_done = 0
    /\ late_calls = 0

----------------------------------------------------------------------------
(* The worker pool (pool.py) *)

MaxWorkers == 2

MaxTasks == 3

Workers == 1..MaxWorkers

truth_path == "s3://bucket/truth.parquet"

\* pl.read_parquet(path): the table stored under the path
read_parquet(path) == [table_at |-> path]

\* mutant of init_worker: without "global TRUTH" the assignment binds a local
\* name and the module global keeps its value
init_worker_local(w, path) == TRUTH[w]

\* init_worker(truth_path) in worker process w: the value its global TRUTH has
\* afterwards
init_worker(w, path) == Some(read_parquet(path))

PoolInit ==
    /\ cell_paths \in { [ i \in 1..n |-> i ] : n \in 0..MaxTasks }
    /\ call_queue = cell_paths
    /\ worker = [ w \in Workers |-> "unborn" ]
    /\ TRUTH = [ w \in Workers |-> NULL ]
    /\ current = [ w \in Workers |-> NULL ]
    /\ results = {}
    /\ observed = [ w \in Workers |-> {} ]
    /\ truth_writes = [ w \in Workers |-> 0 ]

\* the executor starts a worker process; the module is loaded in it and TRUTH
\* is None (line 4)
SpawnWorker(w) ==
    /\ worker[w] = "unborn"
    /\ cell_paths # <<>>
    /\ worker' = [worker EXCEPT ![w] = "started"]
    /\ TRUTH' = [TRUTH EXCEPT ![w] = NULL]
    /\ UNCHANGED <<cell_paths, call_queue, current, results, observed,
                   truth_writes, aggVars, rollVars, iterVars, partVars>>

\* the worker process runs the initializer before it takes any task
InitWorker(w) ==
    /\ worker[w] = "started"
    /\ TRUTH' = [TRUTH EXCEPT ![w] = init_worker(w, truth_path)]
    /\ truth_writes' = [truth_writes EXCEPT ![w] = @ + 1]
    /\ worker' = [worker EXCEPT ![w] = "ready"]
    /\ UNCHANGED <<cell_paths, call_queue, current, results, observed, aggVars,
                   rollVars, iterVars, partVars>>

\* read_parquet raises in the initializer: the worker process exits without
\* having taken a task
InitWorkerFails(w) ==
    /\ worker[w] = "started"
    /\ worker' = [worker EXCEPT ![w] = "dead"]
    /\ UNCHANGED <<cell_paths, call_queue, TRUTH, current, results, observed,
                   truth_writes, aggVars, rollVars, iterVars, partVars>>

\* a worker takes the next task and enters process_cell, where the global
\* TRUTH is in scope
ProcessCellStart(w) ==
    /\ worker[w] = "ready"
    /\ call_queue # <<>>
    /\ current' = [current EXCEPT ![w] = Some(Head(call_queue))]
    /\ call_queue' = Tail(call_queue)
    /\ observed' = [observed EXCEPT ![w] = @ \cup {TRUTH[w]}]
    /\ worker' = [worker EXCEPT ![w] = "busy"]
    /\ UNCHANGED <<cell_paths, TRUTH, results, truth_writes, aggVars, rollVars,
                   iterVars, partVars>>

\* process_cell returns cell_path; it has assigned nothing to TRUTH
ProcessCellReturn(w) ==
    /\ worker[w] = "busy"
    /\ results' = results \cup {Get(current[w])}
    /\ observed' = [observed EXCEPT ![w] = @ \cup {TRUTH[w]}]
    /\ current' = [current EXCEPT ![w] = NULL]
    /\ worker' = [worker EXCEPT ![w] = "ready"]
    /\ UNCHANGED <<cell_paths, call_queue, TRUTH, truth_writes, aggVars,
                   rollVars, iterVars, partVars>>

PoolNext ==
    \E w \in Workers :
        \/ SpawnWorker(w)
        \/ InitWorker(w)
        \/ InitWorkerFails(w)
        \/ ProcessCellStart(w)
        \/ ProcessCellReturn(w)

PoolIdle ==
    /\ cell_paths = <<>>
    /\ call_queue = <<>>
    /\ worker = <<>>
    /\ TRUTH = <<>>
    /\ current = <<>>
    /\ results = {}
    /\ observed = <<>>
    /\ truth_writes = <<>>

----------------------------------------------------------------------------
(* The record partitioner (partitioner.py) *)

MaxRecords == 3

\* the key fields a record carries: <<year, month, day, h3_cell>>, each an
\* Option; the values are far below the limits of u16 and u8
KeyFields ==
    { <<NULL, NULL, NULL, NULL>>,
      <<Some(0), Some(0), Some(0), Some("unknown")>>,
      <<Some(2024), Some(1), Some(2), Some("cA")>>,
      <<Some(2024), Some(1), Some(2), NULL>>,
      <<NULL, Some(1), Some(2), Some("cA")>> }

\* "payload" stands for the other fields of the struct
FlatRecord ==
    { [year |-> f[1], month |-> f[2], day |-> f[3], h3_cell |-> f[4],
       payload |-> x] : f \in KeyFields, x \in {1, 2} }

\* Option<u16>::unwrap_or_default() and Option<u8>::unwrap_or_default()
unwrap_or_default(x) == IF x = NULL THEN 0 ELSE Get(x)

\* Option<String>::unwrap_or_else(|| d)
unwrap_or_else(x, d) == IF x = NULL THEN d ELSE Get(x)

key_of(rec) ==
    <<unwrap_or_default(rec.year), unwrap_or_default(rec.month),
      unwrap_or_default(rec.day), unwrap_or_else(rec.h3_cell, "unknown")>>

\* mutant of push: partitions.insert(key, vec![rec]), the bucket is replaced
push_insert(parts, key, rec) ==
    [ k \in DOMAIN parts \cup {key} |-> IF k = key THEN <<rec>> ELSE parts[k] ]

\* partitions.entry(key).or_default().push(rec)
push(parts, key, rec) ==
    [ k \in DOMAIN parts \cup {key} |->
        IF k = key
        THEN (IF key \in DOMAIN parts THEN Append(parts[key], rec) ELSE <<rec>>)
        ELSE parts[k] ]

\* partition_records(records) is entered: partitions = HashMap::new()
PartInit ==
    /\ records \in UNION { SeqsOfLen(FlatRecord, n) : n \in 0..MaxRecords }
    /\ next_rec = 1
    /\ partitions = <<>>

\* one turn of "for rec in records"
PartitionRecord ==
    /\ next_rec \in DOMAIN records
    /\ partitions' = push(partitions, key_of(records[next_rec]), records[next_rec])
    /\ next_rec' = next_rec + 1
    /\ UNCHANGED <<records, aggVars, rollVars, iterVars, poolVars>>

PartNext == PartitionRecord

PartIdle ==
    /\ records = <<>>
    /\ next_rec = 0
    /\ partitions = <<>>

----------------------------------------------------------------------------
(* Claims about the aggregation run *)

AfterAtomic == pc \in {"group", "cells", "done"}

\* the cells that carry a location candidate in the scan
InputCells == { r.h3_res3 : r \in { x \in lf : is_not_null(x.location_weight) } }

\* the rows of the global table that belong to cell c
TableOf(c) == SelectSeq(features_all_cells.rows, LAMBDA r : r.h3_res3 = c)

\* C1: when the run is done, every cell of the input, also one without any
\* atomic row, has exactly one row per hour of the global grid in the output,
\* in grid order.
C1_EveryCellHasFullTable ==
    pc = "done" =>
        \A c \in InputCells :
            /\ Len(TableOf(c)) = Len(global_hours)
            /\ \A i \in 1..Len(TableOf(c)) : TableOf(c)[i].timestamp = global_hours[i]

\* the location and measurement candidates of the scan and their pairs
LocationCandidates == { LocRow(r) : r \in { x \in lf : is_not_null(x.location_weight) } }

MeasurementCandidates ==
    { MeasRow(r) : r \in { x \in lf : is_not_null(x.measurement_weight) } }

CandidatePairs ==
    { p \in LocationCandidates \X MeasurementCandidates : p[1].obs_id = p[2].obs_id }

PairsInBucket(c, h, mt) ==
    { p \in CandidatePairs : /\ p[1].h3_res3 = c
                             /\ p[1].timestamp_str \div HourLen = h
                             /\ p[2].measurement_type = mt }

RECURSIVE PairWeightSum(_)
PairWeightSum(P) ==
    IF P = {} THEN 0
    ELSE LET p == CHOOSE x \in P : TRUE
         IN  p[1].location_weight * p[2].measurement_weight + PairWeightSum(P \ {p})

\* the pivot's value of bucket (c, h, mt), 0 when the pivot has no such cell
PreWindowValue(c, h, mt) ==
    Get(fill_null(pivot_value(group_df(atomic_df, c), h, mt), 0))

\* C3: the pivoted value of every (cell, hour, type) bucket is the sum of the
\* signal weights of all candidate pairs of the bucket, equal ones included.
C3_BucketSumsAllPairs ==
    AfterAtomic =>
        \A c \in Cells, h \in { truncate(t) : t \in Timestamps },
           mt \in { x[2][1] : x \in { k \in Candidates : k[2] # NULL } } :
            PreWindowValue(c, h, mt) = PairWeightSum(PairsInBucket(c, h, mt))

ExpectedAtomic(p) ==
    [h3_res3 |-> p[1].h3_res3, timestamp |-> p[1].timestamp_str \div HourLen,
     measurement_type |-> p[2].measurement_type,
     signal_weight |-> p[1].location_weight * p[2].measurement_weight]

\* C4: the atomic table holds exactly one row per candidate pair of an obs_id
\* (cell and hour of the location candidate, product of the weights), and
\* nothing else.
C4_OneAtomicRowPerPair ==
    AfterAtomic => atomic_df = BagOf([ p \in CandidatePairs |-> ExpectedAtomic(p) ])

MeasurementVocabulary ==
    { Get(r.measurement_type) : r \in { x \in lf : is_not_null(x.measurement_type) } }

ExpectedFeatureColumns ==
    { SumCol(mt, w) : mt \in MeasurementVocabulary, w \in Range(WINDOWS) } \cup
    { CountCol(mt, w) : mt \in MeasurementVocabulary, w \in Range(WINDOWS) }

FeatureColumnsOf(t) ==
    Range(t.columns) \ {KeyCol("timestamp"), KeyCol("h3_res3")}

C9_RunsAgree ==
    (pc = "done" /\ prev_features # NULL) => features_all_cells = Get(prev_features)

\* the number of rows of table df that equal r
occurrences(df, r) == Cardinality({ i \in DOMAIN df.rows : df.rows[i] = r })

\* C13: the per-cell tables are the partition of the global table by cell id:
\* every row of the global table is in the table of its own cell as often as
\* in the global table and in no other, a per-cell table holds rows of its
\* cell only, and it has the columns of the global table.
C13_PerCellIsPartition ==
    pc = "written" =>
        /\ \A i \in DOMAIN features_all_cells.rows :
             LET r == features_all_cells.rows[i]
             IN  /\ r.h3_res3 \in DOMAIN cell_groups
                 /\ occurrences(cell_groups[r.h3_res3], r) =
                        occurrences(features_all_cells, r)
                 /\ \A c \in DOMAIN cell_groups \ {r.h3_res3} :
                        occurrences(cell_groups[c], r) = 0
        /\ \A c \in DOMAIN cell_groups :
             /\ cell_groups[c].columns = features_all_cells.columns
             /\ cell_groups[c].rows # <<>>
             /\ \A i \in DOMAIN cell_groups[c].rows :
                    /\ cell_groups[c].rows[i].h3_res3 = c
                    /\ occurrences(features_all_cells, cell_groups[c].rows[i]) > 0

\* the per-cell tables of a global table with rows of two cells are written
C13_Witness ==
    /\ pc = "written"
    /\ Cardinality(DOMAIN cell_groups) = 2
    /\ \E i, j \in DOMAIN features_all_cells.rows :
         features_all_cells.rows[i].h3_res3 # features_all_cells.rows[j].h3_res3

\* C16: no signal is lost by the alignment to the grid: the hour bucket of
\* every atomic row is an hour of the global grid, and once the run is done
\* the global table has a row of that cell at that hour; this includes an
\* atomic row at the global maximum timestamp when that lies on the hour.
C16_AtomicHoursOnGrid ==
    /\ AfterAtomic =>
          \A r \in DOMAIN atomic_df : r.timestamp \in Range(global_hours)
    /\ pc = "done" =>
          \A r \in DOMAIN atomic_df :
              \E i \in DOMAIN features_all_cells.rows :
                  /\ features_all_cells.rows[i].h3_res3 = r.h3_res3
                  /\ features_all_cells.rows[i].timestamp = r.timestamp

\* a weight of a raw row is malformed
malformed(w) == is_not_null(w) /\ Get(w) < 0

\* the raw rows of the scan that carry no malformed weight
WellFormedRows ==
    { r \in lf : ~malformed(r.location_weight) /\ ~malformed(r.measurement_weight) }

\* C12: a raw row with a malformed weight is rejected, alone: the atomic
\* table is the one the other rows of the scan give, so that no signal_weight
\* in it is negative.
C12_MalformedRowsRejected ==
    AfterAtomic =>
        /\ atomic_df = lf_atomic(WellFormedRows)
        /\ \A r \in DOMAIN atomic_df : r.signal_weight >= 0

----------------------------------------------------------------------------
(* Claims about the window aggregation *)

WindowRows(i, w) == (IF i - w + 1 < 1 THEN 1 ELSE i - w + 1)..i

RECURSIVE SumAt(_, _)
SumAt(xs, I) ==
    IF I = {} THEN 0
    ELSE LET i == CHOOSE x \in I : TRUE IN xs[i] + SumAt(xs, I \ {i})

\* C2: at every row i and span w the sum feature is the sum of the raw value
\* over rows max(0, i-w+1)..i and the count feature the number of those rows
\* with a value > 0; never null.
C2_PartialWindows ==
    rpc \in {"rolled", "compared"} =>
        \A w \in Range(WINDOWS), i \in 1..Len(series) :
            /\ rolled[w].sum[i] = Some(SumAt(series, WindowRows(i, w)))
            /\ rolled[w].count[i] =
                   Some(Cardinality({ j \in WindowRows(i, w) : series[j] > 0 }))

\* C10: if two tables agree on rows 1..i, their sum and count features at row
\* i are the same, whatever the later rows hold.
C10_Causal ==
    rpc = "compared" =>
        \A i \in 1..Len(series) :
            (\A j \in 1..i : series[j] = alt_series[j]) =>
                \A w \in Range(WINDOWS) :
                    /\ rolled[w].sum[i] = alt_rolled[w].sum[i]
                    /\ rolled[w].count[i] = alt_rolled[w].count[i]

\* the tables differ after row cut, and row cut has a full window of a span > 1
\* with signal in it
C10_Witness ==
    /\ rpc = "compared"
    /\ alt_series # series
    /\ \E w \in Range(WINDOWS) :
         /\ w > 1
         /\ rolled[w].sum[cut] # NULL
         /\ Get(rolled[w].sum[cut]) > 0

----------------------------------------------------------------------------
(* Claims about the streaming batches *)

InSlice(h) == h >= slice[1] /\ h < slice[2]

\* the cells of the list whose time slice is not empty, in list order
NonEmptyCells == SelectSeq(cell_ids, LAMBDA c : \E h \in store[c] : InSlice(h))

ExpectedBatch(c) ==
    LET hs == Sorted({ h \in store[c] : InSlice(h) })
    IN  [X |-> [ i \in DOMAIN hs |-> <<c, hs[i]>> ],
         y |-> [ i \in DOMAIN hs |-> StoredRow(c, hs[i]).label ]]

C7_ZeroBatchPassIsFatal ==
    (gen.state = "exhausted" /\ batches = <<>>) => last = "ZeroBatchesError"

\* C8: a pass over a list with a non-empty cell ends normally, and its
\* batches are those of the non-empty cells in list order; during the pass
\* the batches delivered are a prefix of them.
C8_SkipsEmptyCells ==
    /\ gen.state = "suspended" =>
         /\ last = "batch"
         /\ Len(batch_cells) <= Len(NonEmptyCells)
         /\ batch_cells = SubSeq(NonEmptyCells, 1, Len(batch_cells))
    /\ (gen.state = "exhausted" /\ NonEmptyCells # <<>>) =>
         /\ last = "StopIteration"
         /\ batch_cells = NonEmptyCells
         /\ batches = [ i \in DOMAIN NonEmptyCells |-> ExpectedBatch(NonEmptyCells[i]) ]

\* a pass has ended with a batch delivered and a cell skipped before it
C8_Witness ==
    /\ gen.state = "exhausted"
    /\ Len(batches) >= 1
    /\ \E i, j \in DOMAIN cell_ids :
         /\ i < j
         /\ ~(\E h \in store[cell_ids[i]] : InSlice(h))
         /\ \E h \in store[cell_ids[j]] : InSlice(h)

\* C14: every row of every batch delivered has its timestamp in the window
\* [start, end) and a label that is not missing.
C14_BatchRowsInWindowAndLabelled ==
    \A k \in DOMAIN batches :
        \A i \in DOMAIN batches[k].X :
            LET row == StoredRow(batches[k].X[i][1], batches[k].X[i][2])
            IN  /\ row.timestamp >= slice[1]
                /\ row.timestamp < slice[2]
                /\ is_not_null(row.label)
                /\ is_not_null(batches[k].y[i])

consumed == SubSeq(records, 1, next_rec - 1)

\* the bucket key the claim gives a record
ExpectedKey(r) ==
    <<IF r.year = NULL THEN 0 ELSE r.year[1],
      IF r.month = NULL THEN 0 ELSE r.month[1],
      IF r.day = NULL THEN 0 ELSE r.day[1],
      IF r.h3_cell = NULL THEN "unknown" ELSE r.h3_cell[1]>>

\* the number of places of sequence xs that hold r
places(xs, r) == Cardinality({ i \in DOMAIN xs : xs[i] = r })

RECURSIVE total_len(_, _)
total_len(parts, keys) ==
    IF keys = {} THEN 0
    ELSE LET k == CHOOSE x \in keys : TRUE
         IN  Len(parts[k]) + total_len(parts, keys \ {k})

\* C17: partition_records is a true partition: every record consumed is in
\* the bucket of its key (a missing field counted as 0 or "unknown") and in
\* no other, as often as in the input, the buckets hold nothing else, no
\* bucket is empty, and a bucket keeps the input order of its records.
C17_TruePartition ==
    next_rec >= 1 =>
        /\ DOMAIN partitions = { ExpectedKey(consumed[i]) : i \in DOMAIN consumed }
        /\ total_len(partitions, DOMAIN partitions) = Len(consumed)
        /\ \A i \in DOMAIN consumed :
             /\ places(partitions[ExpectedKey(consumed[i])], consumed[i]) =
                    places(consumed, consumed[i])
             /\ \A k \in DOMAIN partitions \ {ExpectedKey(consumed[i])} :
                    places(partitions[k], consumed[i]) = 0
        /\ \A k \in DOMAIN partitions :
             /\ partitions[k] # <<>>
             /\ partitions[k] = SelectSeq(consumed, LAMBDA r : ExpectedKey(r) = k)

\* all records are consumed; there are two buckets, and one of them holds a
\* record with a missing field next to a different record of the same key
C17_Witness ==
    /\ next_rec = Len(records) + 1
    /\ Len(records) >= 3
    /\ Cardinality(DOMAIN partitions) >= 2
    /\ \E k \in DOMAIN partitions :
         /\ Len(partitions[k]) >= 2
         /\ partitions[k][1] # partitions[k][2]
         /\ \E i \in DOMAIN partitions[k] : partitions[k][i].h3_cell = NULL

\* the states of the iterator the specification names
IteratorState ==
    CASE gen.state \in {"none", "fresh"} -> "Fresh"
      [] gen.state = "suspended" -> "Yielding"
      [] gen.state = "exhausted" -> "Exhausted"

\* C11: a next() made after the pass has ended, with no reset in between,
\* ends in the fatal IteratorProtocolViolation: it is neither a batch nor the
\* normal end of a pass.
C11_LateNextIsViolation ==
    (IteratorState = "Exhausted" /\ late_calls > 0) =>
        /\ last = "IteratorProtocolViolation"
        /\ last # "StopIteration"
        /\ last # "batch"

----------------------------------------------------------------------------
(* Specifications *)

InitAgg == AggInit /\ RollIdle /\ IterIdle /\ PoolIdle /\ PartIdle

InitRoll == AggIdle /\ RollInit /\ IterIdle /\ PoolIdle /\ PartIdle

InitIter == AggIdle /\ RollIdle /\ IterInit /\ PoolIdle /\ PartIdle

InitUnchecked == AggInitUnchecked /\ RollIdle /\ IterIdle /\ PoolIdle /\ PartIdle

Spec == InitAgg /\ [][AggNext]_vars

SpecUnchecked == InitUnchecked /\ [][AggNext]_vars

SpecRerun == InitAgg /\ [][AggNext \/ RunAgain]_vars

SpecRoll == InitRoll /\ [][RollNext]_vars

InitLabels == AggIdle /\ RollIdle /\ IterInitLabels /\ PoolIdle /\ PartIdle

SpecIter == InitIter /\ [][IterNext]_vars

SpecLabels == InitLabels /\ [][IterNext]_vars

InitPool == AggIdle /\ RollIdle /\ IterIdle /\ PoolInit /\ PartIdle

SpecPool == InitPool /\ [][PoolNext]_vars

InitPart == AggIdle /\ RollIdle /\ IterIdle /\ PoolIdle /\ PartInit

SpecPart == InitPart /\ [][PartNext]_vars

====
